---- MODULE Spec2Model ----
(***************************************************************************)
(* Model of the mmcontext memory snapshot facility                         *)
(* (src/context/mmcontext.c): one task (`current`) with its address space  *)
(* (mm->mmap region list, page table), its contextsave flag and its        *)
(* context_queue of saved pages.                                           *)
(*                                                                         *)
(* Addresses are byte addresses; every page starts at a multiple of        *)
(* PAGE_SIZE.  The content of a page is abstracted to one value.           *)
(*                                                                         *)
(* The C functions are operators on a record t of the task's state:        *)
(*   t.writable, t.content            page table write bits, page contents *)
(*   t.contextsave, t.context_queue   fields of `current`                  *)
(*   t.swept                          addresses the sweep has walked       *)
(*   t.lost                           entries allocated, not on the queue  *)
(*                                    and never freed                      *)
(*   t.ret                            value returned by the function       *)
(*                                                                         *)
(* Spec is the single task; SpecMT is several tasks sharing the mm; SpecPhy*)
(* is the common block of the QMP combo phy driver                         *)
(* (src/drivers/phy/qualcomm/phy-qcom-qmp-combo.c).                        *)
(***************************************************************************)
EXTENDS Integers, Sequences, FiniteSets, TLC

\* ------------------------------------------------------------------------
\* Program constants
\* ------------------------------------------------------------------------
PAGE_SIZE == 4096

EINVAL == 22

\* ------------------------------------------------------------------------
\* Bounds of the model
\* ------------------------------------------------------------------------
\* pages of the address space: addresses 0, PAGE_SIZE, ... (NumPages-1)*PAGE_SIZE
NumPages == 3

\* largest number of regions on the mm->mmap list
MaxRegions == 3

\* page contents are values 0..MaxVal
MaxVal == 1

\* the syscall argument is drawn from -1..MaxArg
MaxArg == 2

\* captures are delivered while the queue holds fewer than MaxQueue entries
MaxQueue == 2

\* a copy may fail while fewer than MaxLost entries have been lost
MaxLost == 1

\* tasks (threads) that share the address space in the specification of
\* the interleavings, SpecMT
NumThreads == 2

\* ------------------------------------------------------------------------
\* Value sets
\* ------------------------------------------------------------------------
NULL == -1

PageAddrs == {k * PAGE_SIZE : k \in 0..(NumPages - 1)}

EndAddrs == {k * PAGE_SIZE : k \in 1..NumPages}

Vals == 0..MaxVal

SyscallArgs == -1..MaxArg

Threads == 1..NumThreads

\* the lanes of a QMP combo block: the USB3 phy and the DP phy
Lanes == {"usb_phy", "dp_phy"}

\* struct vm_area_struct, the fields the code reads: vm_flags is the set of
\* flag bits that are set, vm_file is NULL or a file pointer (1).
VmaSet ==
    {v \in [vm_start : PageAddrs, vm_end : EndAddrs,
            vm_flags : SUBSET {"VM_STACK"}, vm_file : {NULL, 1}] :
        v.vm_start < v.vm_end}

\* the lists of at most n regions, sorted by address and not overlapping,
\* that lie at or above address lo
RECURSIVE RegionLists(_, _)
RegionLists(lo, n) ==
    IF n = 0 THEN {<<>>}
    ELSE {<<>>} \cup
         UNION {{<<v>> \o s : s \in RegionLists(v.vm_end, n - 1)} :
                    v \in {w \in VmaSet : lo <= w.vm_start}}

\* mm->mmap: a non-empty list of regions sorted by address, not overlapping.
MmapSet == RegionLists(0, MaxRegions) \ {<<>>}

InRegion(a, vma) == vma.vm_start <= a /\ a < vma.vm_end

VARIABLES
    mmap,           \* current->mm->mmap, the region list (vm_next order)
    present,        \* page table: the pte of the page exists and is present
    writable,       \* page table: write bit of the pte
    content,        \* content of each page of the address space
    contextsave,    \* current->contextsave
    context_queue,  \* current->context_queue, list of struct process_context
    swept,          \* addresses walked by the sweep of the last save_context
    lost,           \* number of struct process_context (with their page) that
                    \* were allocated, are not on the queue and were not freed
    snap,           \* page contents when the active snapshot began; follows
                    \* content while the task has no active snapshot
    last,           \* the last operation, its argument and its return value
    tasks,          \* SpecMT only: for each task sharing the mm, its fields
                    \* of `current` and where it stands in the code
    qmp,            \* SpecPhy only: struct qcom_qmp of one QMP combo block
    phys            \* SpecPhy only: for each lane (phy) of the block, what
                    \* the phy framework holds and where a call stands

vars == <<mmap, present, writable, content, contextsave, context_queue,
          swept, lost, snap, last, tasks, qmp, phys>>

\* check_anon without the test of vma->vm_file
check_anon_stack_only(vma) ==
    IF "VM_STACK" \in vma.vm_flags THEN FALSE
    ELSE TRUE

\* ------------------------------------------------------------------------
\* check_anon: the region is neither stack memory nor file memory
\* ------------------------------------------------------------------------
check_anon(vma) ==
    IF "VM_STACK" \in vma.vm_flags THEN FALSE
    ELSE IF vma.vm_file # NULL THEN FALSE
    ELSE TRUE

\* ------------------------------------------------------------------------
\* check_page_pte: walk the page table; the pte (named by its address) when
\* every level is present, NULL otherwise.  Addresses beyond the modelled
\* address space have no page table entry.
\* ------------------------------------------------------------------------
check_page_pte(pres, address) ==
    IF address \in PageAddrs /\ pres[address] THEN address ELSE NULL

\* set_protect that inverts the write bit of each present page instead of
\* clearing it
RECURSIVE set_protect_invert_loop(_, _, _, _)
set_protect_invert_loop(pres, vma, i, t) ==
    IF ~(i <= vma.vm_end) THEN [t EXCEPT !.ret = 0]
    ELSE LET pte == check_page_pte(pres, i)
             seen == t.swept \cup {i}
         IN  IF pte # NULL
             THEN set_protect_invert_loop(pres, vma, i + PAGE_SIZE,
                      [t EXCEPT !.writable = [@ EXCEPT ![pte] = ~@],
                                !.swept = seen])
             ELSE [t EXCEPT !.swept = seen, !.ret = -EINVAL]

set_protect_invert(pres, vma, t) ==
    set_protect_invert_loop(pres, vma, vma.vm_start, t)

\* ------------------------------------------------------------------------
\* set_protect: for (i = vm_start; i <= vm_end; i += 4096), write-protect
\* the page when it is present, return -EINVAL at the first page that is
\* not.
\* ------------------------------------------------------------------------
RECURSIVE set_protect_loop(_, _, _, _)
set_protect_loop(pres, vma, i, t) ==
    IF ~(i <= vma.vm_end) THEN [t EXCEPT !.ret = 0]
    ELSE LET pte == check_page_pte(pres, i)
             seen == t.swept \cup {i}
         IN  IF pte # NULL
             THEN set_protect_loop(pres, vma, i + PAGE_SIZE,
                      [t EXCEPT !.writable = [@ EXCEPT ![pte] = FALSE],
                                !.swept = seen])
             ELSE [t EXCEPT !.swept = seen, !.ret = -EINVAL]

set_protect(pres, vma, t) == set_protect_loop(pres, vma, vma.vm_start, t)

\* copy_pages with list_add in place of list_add_tail: the entry is linked
\* at the head of the queue
copy_pages_list_add(t, page, copy_fails) ==
    IF copy_fails THEN [t EXCEPT !.lost = @ + 1, !.ret = -EINVAL]
    ELSE [t EXCEPT !.context_queue =
                       <<[address |-> page, new_page |-> t.content[page]]>> \o @,
                   !.ret = 0]

\* copy_pages that, when the page already has an entry, copies the page
\* into the buffer of that entry instead of allocating a new one
copy_pages_reuse_entry(t, page, copy_fails) ==
    IF copy_fails THEN [t EXCEPT !.lost = @ + 1, !.ret = -EINVAL]
    ELSE IF \E n \in 1..Len(t.context_queue) :
                t.context_queue[n].address = page
    THEN [t EXCEPT !.context_queue =
                       [n \in 1..Len(@) |->
                           IF @[n].address = page
                           THEN [address |-> page,
                                 new_page |-> t.content[page]]
                           ELSE @[n]],
                   !.ret = 0]
    ELSE [t EXCEPT !.context_queue =
                       Append(@, [address |-> page,
                                  new_page |-> t.content[page]]),
                   !.ret = 0]

\* ------------------------------------------------------------------------
\* copy_pages: allocate an entry and a page, save the current content of
\* the page and link the entry at the tail of the queue; when the copy fails
\* (n != 0) return -EINVAL with nothing queued and nothing freed.
\* ------------------------------------------------------------------------
copy_pages(t, page, copy_fails) ==
    IF copy_fails THEN [t EXCEPT !.lost = @ + 1, !.ret = -EINVAL]
    ELSE [t EXCEPT !.context_queue =
                       Append(@, [address |-> page,
                                  new_page |-> t.content[page]]),
                   !.ret = 0]

\* ------------------------------------------------------------------------
\* save_context: INIT_LIST_HEAD(&current->context_queue);
\* current->contextsave = true; while (mmap->vm_next) { if (check_anon(mmap))
\* set_protect(mmap); mmap = mmap->vm_next; }  The result of set_protect is
\* not looked at.  k is the position of `mmap` on the list.  INIT_LIST_HEAD
\* drops the entries that are still linked without freeing them.
\* ------------------------------------------------------------------------
RECURSIVE save_context_loop(_, _, _, _)
save_context_loop(regions, pres, k, t) ==
    IF ~(k < Len(regions)) THEN t
    ELSE save_context_loop(regions, pres, k + 1,
             IF check_anon(regions[k])
             THEN set_protect(pres, regions[k], t)
             ELSE t)

\* save_context without INIT_LIST_HEAD: the entries still linked stay on
\* the queue
save_context_no_init(regions, pres, t) ==
    [save_context_loop(regions, pres, 1,
         [t EXCEPT !.contextsave = TRUE, !.swept = {}])
     EXCEPT !.ret = 0]

save_context(regions, pres, t) ==
    [save_context_loop(regions, pres, 1,
         [t EXCEPT !.context_queue = <<>>, !.contextsave = TRUE,
                   !.swept = {}, !.lost = @ + Len(t.context_queue)])
     EXCEPT !.ret = 0]

\* ------------------------------------------------------------------------
\* restore_context: contextsave = false, then take the entries from the
\* head of the queue and copy each back to its address; return -EINVAL at
\* the first copy that fails (its entry is already unlinked and is not
\* freed); an entry whose copy succeeds is freed.
\* fail_at = 0: no copy fails; fail_at = k: the copy of the k-th entry
\* fails.  A failing copy is modelled as writing nothing.
\* ------------------------------------------------------------------------
RECURSIVE restore_context_loop(_, _)
restore_context_loop(t, fail_at) ==
    IF t.context_queue = <<>> THEN [t EXCEPT !.ret = 0]
    ELSE LET next == Head(t.context_queue)
             unlinked == [t EXCEPT !.context_queue = Tail(@)]
         IN  IF fail_at = 1
             THEN [unlinked EXCEPT !.lost = @ + 1, !.ret = -EINVAL]
             ELSE restore_context_loop(
                      [unlinked EXCEPT
                           !.content = [@ EXCEPT ![next.address] = next.new_page]],
                      IF fail_at = 0 THEN 0 ELSE fail_at - 1)

\* restore_context taking the entries from the tail of the queue
\* (context->prev in place of context->next)
restore_context_from_tail(t, fail_at) ==
    restore_context_loop(
        [t EXCEPT !.contextsave = FALSE,
                  !.context_queue =
                      [n \in 1..Len(@) |-> @[Len(@) + 1 - n]]],
        fail_at)

\* restore_context without the assignment contextsave = false
restore_context_flag_kept(t, fail_at) == restore_context_loop(t, fail_at)

restore_context(t, fail_at) ==
    restore_context_loop([t EXCEPT !.contextsave = FALSE], fail_at)

\* ------------------------------------------------------------------------
\* clear_context: contextsave = false, then unlink and free every entry
\* ------------------------------------------------------------------------
RECURSIVE clear_context_loop(_)
clear_context_loop(t) ==
    IF t.context_queue = <<>> THEN t
    ELSE clear_context_loop([t EXCEPT !.context_queue = Tail(@)])

\* clear_context without the loop that unlinks the entries
clear_context_no_drain(t) == [t EXCEPT !.contextsave = FALSE]

\* clear_context without the assignment contextsave = false
clear_context_flag_kept(t) == clear_context_loop(t)

\* clear_context with the loop of restore_context, which copies each entry
\* back before freeing it
clear_context_writes_back(t) ==
    restore_context_loop([t EXCEPT !.contextsave = FALSE], 0)

clear_context(t) ==
    clear_context_loop([t EXCEPT !.contextsave = FALSE])

\* ------------------------------------------------------------------------
\* SYSCALL_DEFINE1(mmcontext, int, i): 0 begins a snapshot, 1 restores it.
\* The values returned by save_context and restore_context are dropped.
\* ------------------------------------------------------------------------
\* mmcontext without the test of contextsave before save_context
mmcontext_begin_unchecked(regions, pres, t, i, fail_at) ==
    IF i = 0
    THEN [save_context(regions, pres, t) EXCEPT !.ret = 0]
    ELSE IF i = 1
    THEN IF ~t.contextsave
         THEN [t EXCEPT !.ret = -EINVAL]
         ELSE [restore_context(t, fail_at) EXCEPT !.ret = 0]
    ELSE [t EXCEPT !.ret = -EINVAL]

\* mmcontext without the test of contextsave before restore_context
mmcontext_restore_unchecked(regions, pres, t, i, fail_at) ==
    IF i = 0
    THEN IF t.contextsave
         THEN [t EXCEPT !.ret = -EINVAL]
         ELSE [save_context(regions, pres, t) EXCEPT !.ret = 0]
    ELSE IF i = 1
    THEN [restore_context(t, fail_at) EXCEPT !.ret = 0]
    ELSE [t EXCEPT !.ret = -EINVAL]

\* mmcontext that takes every argument other than 0 as 1
mmcontext_nonzero_restores(regions, pres, t, i, fail_at) ==
    IF i = 0
    THEN IF t.contextsave
         THEN [t EXCEPT !.ret = -EINVAL]
         ELSE [save_context(regions, pres, t) EXCEPT !.ret = 0]
    ELSE IF ~t.contextsave
         THEN [t EXCEPT !.ret = -EINVAL]
         ELSE [restore_context(t, fail_at) EXCEPT !.ret = 0]

mmcontext(regions, pres, t, i, fail_at) ==
    IF i = 0
    THEN IF t.contextsave
         THEN [t EXCEPT !.ret = -EINVAL]
         ELSE [save_context(regions, pres, t) EXCEPT !.ret = 0]
    ELSE IF i = 1
    THEN IF ~t.contextsave
         THEN [t EXCEPT !.ret = -EINVAL]
         ELSE [restore_context(t, fail_at) EXCEPT !.ret = 0]
    ELSE [t EXCEPT !.ret = -EINVAL]

\* ------------------------------------------------------------------------
\* The task's state as a record, and its assignment to the variables
\* ------------------------------------------------------------------------
Task ==
    [writable |-> writable, content |-> content, contextsave |-> contextsave,
     context_queue |-> context_queue, swept |-> swept, lost |-> lost,
     ret |-> last.ret]

Becomes(t) ==
    /\ writable' = t.writable
    /\ content' = t.content
    /\ contextsave' = t.contextsave
    /\ context_queue' = t.context_queue
    /\ swept' = t.swept
    /\ lost' = t.lost

\* pages write-protected by the sweep of the last save_context
Armed == {a \in swept \cap PageAddrs : present[a]}

Alive == last.op # "exit"

\* ------------------------------------------------------------------------
\* Initial state: a task that has not called mmcontext.  Every present page
\* lies in a region, is writable and is zero-filled.
\* ------------------------------------------------------------------------
Init ==
    /\ mmap \in MmapSet
    /\ present \in [PageAddrs -> BOOLEAN]
    /\ \A a \in PageAddrs :
           present[a] => \E k \in 1..Len(mmap) : InRegion(a, mmap[k])
    /\ writable = present
    /\ content = [a \in PageAddrs |-> 0]
    /\ contextsave = FALSE
    /\ context_queue = <<>>
    /\ swept = {}
    /\ lost = 0
    /\ snap = content
    /\ last = [op |-> "init", arg |-> 0, ret |-> 0]
    /\ tasks = [t \in Threads |->
                   [pc |-> "idle", contextsave |-> FALSE,
                    context_queue |-> <<>>, k |-> 0, i |-> 0]]
    /\ qmp = [init_count |-> 0, phy_mutex |-> FALSE, vregs |-> FALSE,
              resets |-> "asserted", clks |-> FALSE,
              ufs_reset |-> "asserted",
              pipe_clk |-> [l \in Lanes |-> FALSE], ret |-> 0]
    /\ phys = [l \in Lanes |->
                  [pc |-> "idle", init_count |-> 0, power_count |-> 0,
                   ret |-> 0]]

\* ------------------------------------------------------------------------
\* The task calls mmcontext(i); fail_at tells which copy of the restore, if
\* any, fails.
\* ------------------------------------------------------------------------
Call(i, fail_at) ==
    /\ Alive
    /\ (i # 1 \/ ~contextsave) => fail_at = 0
    /\ fail_at # 0 => lost < MaxLost
    /\ LET t == mmcontext(mmap, present, Task, i, fail_at)
       IN  /\ Becomes(t)
           /\ snap' = IF t.contextsave THEN
                          IF contextsave THEN snap ELSE content
                      ELSE t.content
           /\ last' = [op |-> "mmcontext", arg |-> i, ret |-> t.ret]
    /\ UNCHANGED <<mmap, present, tasks, qmp, phys>>

Syscall ==
    \E i \in SyscallArgs :
        \E fail_at \in 0..Len(context_queue) : Call(i, fail_at)

\* ------------------------------------------------------------------------
\* The task writes a value to a page whose pte is present and writable.
\* ------------------------------------------------------------------------
Write(a, v) ==
    /\ Alive
    /\ present[a]
    /\ writable[a]
    /\ content' = [content EXCEPT ![a] = v]
    /\ snap' = IF contextsave THEN snap ELSE content'
    /\ last' = [op |-> "write", arg |-> 0, ret |-> 0]
    /\ UNCHANGED <<mmap, present, writable, contextsave, context_queue,
                   swept, lost, tasks, qmp, phys>>

UserWrite == \E a \in PageAddrs : \E v \in Vals : Write(a, v)

\* ------------------------------------------------------------------------
\* Write fault on a page the snapshot protected, delivered by the fault
\* dispatch while the snapshot is active: capture the page with copy_pages,
\* then make that page writable again and report the fault as handled.  A
\* failed capture ends the snapshot: the queue is cleared, the fault is not
\* handled.  The dispatch may deliver a fault for a page of the snapshot
\* more than once.
\* ------------------------------------------------------------------------
OnWriteFault(t, a, copy_fails) ==
    LET r == copy_pages(t, a, copy_fails)
    IN  IF r.ret = 0
        THEN [r EXCEPT !.writable = [@ EXCEPT ![a] = TRUE]]
        ELSE [clear_context(r) EXCEPT !.ret = -EINVAL]

WriteFault ==
    \E a \in PageAddrs : \E copy_fails \in BOOLEAN :
        /\ Alive
        /\ contextsave
        /\ a \in Armed
        /\ Len(context_queue) < MaxQueue
        /\ copy_fails => lost < MaxLost
        /\ LET t == OnWriteFault(Task, a, copy_fails)
           IN  /\ Becomes(t)
               /\ snap' = IF t.contextsave THEN snap ELSE content
               /\ last' = [op |-> "fault", arg |-> a, ret |-> t.ret]
        /\ UNCHANGED <<mmap, present, tasks, qmp, phys>>

\* ------------------------------------------------------------------------
\* The task exits: clear_context runs, whatever the state of the snapshot.
\* last.arg records how many entries were on the queue.
\* ------------------------------------------------------------------------
Exit ==
    /\ Alive
    /\ Becomes(clear_context(Task))
    /\ last' = [op |-> "exit", arg |-> Len(context_queue), ret |-> 0]
    /\ UNCHANGED <<mmap, present, snap, tasks, qmp, phys>>

Next ==
    \/ Syscall
    \/ UserWrite
    \/ WriteFault
    \/ Exit

Spec == Init /\ [][Next]_vars

\* ========================================================================
\* SpecMT: NumThreads tasks that share one mm (one region list, one page
\* table) and run the same code concurrently.  contextsave and
\* context_queue are fields of `current`, so every task has its own; the
\* code takes no lock, so the tasks interleave between any two iterations
\* of a loop.  tasks[t].pc is where task t stands:
\*   "idle"       in user mode
\*   "walk"       save_context, at the test of its while loop, region k
\*   "sweep"      set_protect, at the test of its for loop, address i
\*   "restore"    restore_context, at the test of its while loop
\*   "copy"       write-fault handler, before copy_pages, page i
\*   "unprotect"  write-fault handler, after copy_pages, page i
\* A call that mmcontext rejects changes nothing and is not a step here.
\* Page contents play no part in the properties of SpecMT and stay as they
\* are; swept and the single-task variables are not used.
\* ========================================================================
\* the record of task t for the operators of the C functions
MtTask(t) ==
    [Task EXCEPT !.contextsave = tasks[t].contextsave,
                 !.context_queue = tasks[t].context_queue]

MtUnchanged ==
    UNCHANGED <<mmap, present, content, contextsave, context_queue, swept,
                snap, last, qmp, phys>>

\* mmcontext(0) by a task whose contextsave is false, up to the while loop
\* of save_context
MtBegin(t) ==
    /\ tasks[t].pc = "idle"
    /\ ~tasks[t].contextsave
    /\ tasks' = [tasks EXCEPT ![t] =
                    [@ EXCEPT !.pc = "walk", !.contextsave = TRUE,
                              !.context_queue = <<>>, !.k = 1]]
    /\ lost' = lost + Len(tasks[t].context_queue)
    /\ UNCHANGED writable
    /\ MtUnchanged

\* save_context: one test of while (mmap->vm_next) with the call of
\* check_anon that follows it
MtWalk(t) ==
    /\ tasks[t].pc = "walk"
    /\ LET k == tasks[t].k
       IN  tasks' = [tasks EXCEPT ![t] =
               IF ~(k < Len(mmap)) THEN [@ EXCEPT !.pc = "idle", !.k = 0]
               ELSE IF check_anon(mmap[k])
                    THEN [@ EXCEPT !.pc = "sweep", !.i = mmap[k].vm_start]
                    ELSE [@ EXCEPT !.k = k + 1]]
    /\ UNCHANGED <<writable, lost>>
    /\ MtUnchanged

\* set_protect: one iteration of its for loop; at its end, back to
\* save_context with mmap = mmap->vm_next
MtSweep(t) ==
    /\ tasks[t].pc = "sweep"
    /\ LET k == tasks[t].k
           i == tasks[t].i
           pte == check_page_pte(present, i)
           back == [tasks EXCEPT ![t] =
                       [@ EXCEPT !.pc = "walk", !.k = k + 1, !.i = 0]]
       IN  IF ~(i <= mmap[k].vm_end)
           THEN tasks' = back /\ UNCHANGED writable
           ELSE IF pte # NULL
           THEN /\ writable' = [writable EXCEPT ![pte] = FALSE]
                /\ tasks' = [tasks EXCEPT ![t].i = i + PAGE_SIZE]
           ELSE tasks' = back /\ UNCHANGED writable
    /\ UNCHANGED lost
    /\ MtUnchanged

\* mmcontext(1) by a task whose contextsave is true, up to the while loop
\* of restore_context
MtEnd(t) ==
    /\ tasks[t].pc = "idle"
    /\ tasks[t].contextsave
    /\ tasks' = [tasks EXCEPT ![t] =
                    [@ EXCEPT !.pc = "restore", !.contextsave = FALSE]]
    /\ UNCHANGED <<writable, lost>>
    /\ MtUnchanged

\* restore_context: one iteration of its while loop
MtRestore(t, copy_fails) ==
    /\ tasks[t].pc = "restore"
    /\ copy_fails => (tasks[t].context_queue # <<>> /\ lost < MaxLost)
    /\ LET q == tasks[t].context_queue
       IN  IF q = <<>>
           THEN /\ tasks' = [tasks EXCEPT ![t].pc = "idle"]
                /\ UNCHANGED lost
           ELSE IF copy_fails
           THEN /\ tasks' = [tasks EXCEPT ![t] =
                                [@ EXCEPT !.pc = "idle",
                                          !.context_queue = Tail(q)]]
                /\ lost' = lost + 1
           ELSE /\ tasks' = [tasks EXCEPT ![t].context_queue = Tail(q)]
                /\ UNCHANGED lost
    /\ UNCHANGED writable
    /\ MtUnchanged

\* a write of task t to the write-protected page a traps; the fault is
\* dispatched to the handler when the task has an active snapshot
MtFault(t, a) ==
    /\ tasks[t].pc = "idle"
    /\ tasks[t].contextsave
    /\ present[a]
    /\ ~writable[a]
    /\ Len(tasks[t].context_queue) < MaxQueue
    /\ tasks' = [tasks EXCEPT ![t] = [@ EXCEPT !.pc = "copy", !.i = a]]
    /\ UNCHANGED <<writable, lost>>
    /\ MtUnchanged

\* the handler calls copy_pages, which links the entry on the queue of
\* `current`; a failed copy ends the snapshot of the task
MtCopy(t, copy_fails) ==
    /\ tasks[t].pc = "copy"
    /\ copy_fails => lost < MaxLost
    /\ LET r == copy_pages(MtTask(t), tasks[t].i, copy_fails)
           c == clear_context(r)
       IN  IF r.ret = 0
           THEN /\ tasks' = [tasks EXCEPT ![t] =
                                [@ EXCEPT !.pc = "unprotect",
                                          !.context_queue = r.context_queue]]
                /\ lost' = r.lost
           ELSE /\ tasks' = [tasks EXCEPT ![t] =
                                [@ EXCEPT !.pc = "idle", !.i = 0,
                                          !.contextsave = c.contextsave,
                                          !.context_queue = c.context_queue]]
                /\ lost' = c.lost
    /\ UNCHANGED writable
    /\ MtUnchanged

\* the handler makes the page writable again and returns
MtUnprotect(t) ==
    /\ tasks[t].pc = "unprotect"
    /\ writable' = [writable EXCEPT ![tasks[t].i] = TRUE]
    /\ tasks' = [tasks EXCEPT ![t] = [@ EXCEPT !.pc = "idle", !.i = 0]]
    /\ UNCHANGED lost
    /\ MtUnchanged

NextMT ==
    \E t \in Threads :
        \/ MtBegin(t)
        \/ MtWalk(t)
        \/ MtSweep(t)
        \/ MtEnd(t)
        \/ \E copy_fails \in BOOLEAN : MtRestore(t, copy_fails)
        \/ \E a \in PageAddrs : MtFault(t, a)
        \/ \E copy_fails \in BOOLEAN : MtCopy(t, copy_fails)
        \/ MtUnprotect(t)

SpecMT == Init /\ [][NextMT]_vars

\* ========================================================================
\* SpecPhy: the common block of one QMP combo phy
\* (src/drivers/phy/qualcomm/phy-qcom-qmp-combo.c) and its two lanes.
\*   qmp.init_count, qmp.phy_mutex      fields of struct qcom_qmp
\*   qmp.vregs, qmp.clks                the bulk regulators / clocks are on
\*   qmp.resets, qmp.ufs_reset          "asserted" or "deasserted"
\*   qmp.pipe_clk[l]                    the pipe clock of lane l is on
\*   qmp.ret                            value returned by the function
\* The C functions are operators on this record.  `fail` names the call
\* that fails, "none" when none does; the error code of a failing call is
\* written -EINVAL.  Register writes are not modelled.
\* The bodies of com_init and com_exit run with phy_mutex held from their
\* first to their last statement, so each is one step.
\* phys[l].init_count and phys[l].power_count are the counters of the phy
\* framework for lane l, which calls the init (power_on) callback of a phy
\* only when the counter is 0 and its exit (power_off) callback only when
\* it is 1; phys[l].pc is where a call of enable or disable on lane l
\* stands and phys[l].ret is the local variable ret of that call.  last.op names the function that has just returned.  The
\* memory snapshot variables are not used.
\* ========================================================================
ComInitFails == {"none", "vregs", "reset_assert", "reset_deassert", "clks"}

PowerOnFails == {"none", "pipe_clk", "ufs_reset", "timeout"}

\* qcom_qmp_phy_combo_com_init: mutex_lock; if (init_count++) return 0;
\* regulators on, resets asserted then deasserted, clocks on; each failure
\* undoes the steps before it and returns the error.
qcom_qmp_phy_combo_com_init(q, fail) ==
    LET locked == [q EXCEPT !.phy_mutex = TRUE, !.init_count = @ + 1]
    IN  IF q.init_count # 0
        THEN [locked EXCEPT !.phy_mutex = FALSE, !.ret = 0]
        ELSE IF fail = "vregs"
        THEN [locked EXCEPT !.phy_mutex = FALSE, !.ret = -EINVAL]
        ELSE IF fail = "reset_assert"
        THEN [locked EXCEPT !.vregs = FALSE,
                            !.phy_mutex = FALSE, !.ret = -EINVAL]
        ELSE IF fail = "reset_deassert"
        THEN [locked EXCEPT !.resets = "asserted", !.vregs = FALSE,
                            !.phy_mutex = FALSE, !.ret = -EINVAL]
        ELSE IF fail = "clks"
        THEN [locked EXCEPT !.resets = "asserted", !.vregs = FALSE,
                            !.phy_mutex = FALSE, !.ret = -EINVAL]
        ELSE [locked EXCEPT !.vregs = TRUE, !.resets = "deasserted",
                            !.clks = TRUE,
                            !.phy_mutex = FALSE, !.ret = 0]

\* qcom_qmp_phy_combo_com_exit: mutex_lock; if (--init_count) return 0;
\* resets asserted, clocks and regulators off.
qcom_qmp_phy_combo_com_exit(q) ==
    LET locked == [q EXCEPT !.phy_mutex = TRUE, !.init_count = @ - 1]
    IN  IF locked.init_count # 0
        THEN [locked EXCEPT !.phy_mutex = FALSE, !.ret = 0]
        ELSE [locked EXCEPT !.ufs_reset = "asserted",
                            !.resets = "asserted", !.clks = FALSE,
                            !.vregs = FALSE,
                            !.phy_mutex = FALSE, !.ret = 0]

\* qcom_qmp_phy_combo_init: com_init, then (DP lane) dp_aux_init
qcom_qmp_phy_combo_init(q, fail) == qcom_qmp_phy_combo_com_init(q, fail)

\* qcom_qmp_phy_combo_power_on of lane l: pipe clock on, lane configured,
\* ufs_reset deasserted, (not on the DP lane) wait for the phy to be ready;
\* a failure after the pipe clock is on turns it off again.
qcom_qmp_phy_combo_power_on(q, l, fail) ==
    IF fail = "pipe_clk" THEN [q EXCEPT !.ret = -EINVAL]
    ELSE IF fail = "ufs_reset"
    THEN [q EXCEPT !.pipe_clk[l] = FALSE, !.ret = -EINVAL]
    ELSE IF fail = "timeout" /\ l # "dp_phy"
    THEN [q EXCEPT !.ufs_reset = "deasserted", !.pipe_clk[l] = FALSE,
                   !.ret = -EINVAL]
    ELSE [q EXCEPT !.ufs_reset = "deasserted", !.pipe_clk[l] = TRUE,
                   !.ret = 0]

\* qcom_qmp_phy_combo_power_off of lane l
qcom_qmp_phy_combo_power_off(q, l) ==
    [q EXCEPT !.pipe_clk[l] = FALSE, !.ret = 0]

\* qcom_qmp_phy_combo_exit: com_exit, result dropped
qcom_qmp_phy_combo_exit(q) ==
    [qcom_qmp_phy_combo_com_exit(q) EXCEPT !.ret = 0]

MemUnchanged ==
    UNCHANGED <<mmap, present, writable, content, contextsave, context_queue,
                swept, lost, snap, tasks>>

\* the bring-up of com_init can fail only when it runs
InitFailOk(fail) == qmp.init_count # 0 => fail = "none"

\* DP lane, .init = qcom_qmp_phy_combo_init
PhyInit(l, fail) ==
    /\ l = "dp_phy"
    /\ ~qmp.phy_mutex
    /\ phys[l].init_count = 0
    /\ InitFailOk(fail)
    /\ LET q == qcom_qmp_phy_combo_init(qmp, fail)
       IN  /\ qmp' = q
           /\ phys' = [phys EXCEPT ![l].init_count =
                                       IF q.ret = 0 THEN 1 ELSE 0]
           /\ last' = [op |-> "phy_init", arg |-> 0, ret |-> q.ret]
    /\ MemUnchanged

\* DP lane, .power_on = qcom_qmp_phy_combo_power_on
PhyPowerOn(l, fail) ==
    /\ l = "dp_phy"
    /\ fail # "timeout"
    /\ phys[l].init_count = 1
    /\ phys[l].power_count = 0
    /\ LET q == qcom_qmp_phy_combo_power_on(qmp, l, fail)
       IN  /\ qmp' = q
           /\ phys' = [phys EXCEPT ![l].power_count =
                                       IF q.ret = 0 THEN 1 ELSE 0]
           /\ last' = [op |-> "phy_power_on", arg |-> 0, ret |-> q.ret]
    /\ MemUnchanged

\* DP lane, .power_off = qcom_qmp_phy_combo_power_off
PhyPowerOff(l) ==
    /\ l = "dp_phy"
    /\ phys[l].power_count = 1
    /\ qmp' = qcom_qmp_phy_combo_power_off(qmp, l)
    /\ phys' = [phys EXCEPT ![l].power_count = 0]
    /\ last' = [op |-> "phy_power_off", arg |-> 0, ret |-> 0]
    /\ MemUnchanged

\* DP lane, .exit = qcom_qmp_phy_combo_exit
PhyExit(l) ==
    /\ l = "dp_phy"
    /\ ~qmp.phy_mutex
    /\ phys[l].init_count = 1
    /\ phys[l].power_count = 0
    /\ qmp' = qcom_qmp_phy_combo_exit(qmp)
    /\ phys' = [phys EXCEPT ![l].init_count = 0]
    /\ last' = [op |-> "phy_exit", arg |-> 0, ret |-> 0]
    /\ MemUnchanged

\* USB lane, .init = qcom_qmp_phy_combo_enable: the call of
\* qcom_qmp_phy_combo_init; its error is returned
EnableInit(l, fail) ==
    /\ l = "usb_phy"
    /\ ~qmp.phy_mutex
    /\ phys[l].pc = "idle"
    /\ phys[l].init_count = 0
    /\ InitFailOk(fail)
    /\ LET q == qcom_qmp_phy_combo_init(qmp, fail)
       IN  /\ qmp' = q
           /\ IF q.ret # 0
              THEN /\ last' = [op |-> "enable", arg |-> 0, ret |-> q.ret]
                   /\ UNCHANGED phys
              ELSE /\ phys' = [phys EXCEPT ![l].pc = "enable_power_on"]
                   /\ last' = [op |-> "enable_init", arg |-> 0, ret |-> 0]
    /\ MemUnchanged

\* qcom_qmp_phy_combo_enable: the call of qcom_qmp_phy_combo_power_on
EnablePowerOn(l, fail) ==
    /\ phys[l].pc = "enable_power_on"
    /\ LET q == qcom_qmp_phy_combo_power_on(qmp, l, fail)
       IN  /\ qmp' = q
           /\ IF q.ret # 0
              THEN /\ phys' = [phys EXCEPT ![l] =
                                  [@ EXCEPT !.pc = "enable_exit",
                                            !.ret = q.ret]]
                   /\ last' = [op |-> "enable_power_on", arg |-> 0,
                               ret |-> q.ret]
              ELSE /\ phys' = [phys EXCEPT ![l] =
                                  [@ EXCEPT !.pc = "idle", !.init_count = 1]]
                   /\ last' = [op |-> "enable", arg |-> 0, ret |-> 0]
    /\ MemUnchanged

\* qcom_qmp_phy_combo_enable: power_on failed, qcom_qmp_phy_combo_exit is
\* called and the error of power_on is returned
EnableExit(l) ==
    /\ phys[l].pc = "enable_exit"
    /\ ~qmp.phy_mutex
    /\ qmp' = qcom_qmp_phy_combo_exit(qmp)
    /\ phys' = [phys EXCEPT ![l] = [@ EXCEPT !.pc = "idle", !.ret = 0]]
    /\ last' = [op |-> "enable", arg |-> 0, ret |-> phys[l].ret]
    /\ MemUnchanged

\* USB lane, .exit = qcom_qmp_phy_combo_disable: the call of
\* qcom_qmp_phy_combo_power_off, which returns 0
DisablePowerOff(l) ==
    /\ l = "usb_phy"
    /\ phys[l].pc = "idle"
    /\ phys[l].init_count = 1
    /\ qmp' = qcom_qmp_phy_combo_power_off(qmp, l)
    /\ phys' = [phys EXCEPT ![l].pc = "disable_exit"]
    /\ last' = [op |-> "disable_power_off", arg |-> 0, ret |-> 0]
    /\ MemUnchanged

\* qcom_qmp_phy_combo_disable: the call of qcom_qmp_phy_combo_exit
DisableExit(l) ==
    /\ phys[l].pc = "disable_exit"
    /\ ~qmp.phy_mutex
    /\ qmp' = qcom_qmp_phy_combo_exit(qmp)
    /\ phys' = [phys EXCEPT ![l] = [@ EXCEPT !.pc = "idle", !.init_count = 0]]
    /\ last' = [op |-> "disable", arg |-> 0, ret |-> 0]
    /\ MemUnchanged

NextPhy ==
    \E l \in Lanes :
        \/ \E fail \in ComInitFails : PhyInit(l, fail)
        \/ \E fail \in PowerOnFails : PhyPowerOn(l, fail)
        \/ PhyPowerOff(l)
        \/ PhyExit(l)
        \/ \E fail \in ComInitFails : EnableInit(l, fail)
        \/ \E fail \in PowerOnFails : EnablePowerOn(l, fail)
        \/ EnableExit(l)
        \/ DisablePowerOff(l)
        \/ DisableExit(l)

\* the block after probe, in a system with one mapped region and no page
InitPhy ==
    /\ Init
    /\ mmap = <<[vm_start |-> 0, vm_end |-> PAGE_SIZE, vm_flags |-> {},
                 vm_file |-> NULL]>>
    /\ present = [a \in PageAddrs |-> FALSE]

SpecPhy == InitPhy /\ [][NextPhy]_vars

\* ========================================================================
\* Properties
\* ========================================================================
\* the addresses that have an entry on the queue q
QueueAddrs(q) == {q[n].address : n \in 1..Len(q)}

\* the pages that lie in a region check_anon rejects
IneligiblePages ==
    {a \in PageAddrs :
        \E k \in 1..Len(mmap) : InRegion(a, mmap[k]) /\ ~check_anon(mmap[k])}

\* the last operation was mmcontext(i)
Called(i) == last.op = "mmcontext" /\ last.arg = i

\* the sweep of the last save_context met a page that is not present, that
\* is, one of its set_protect calls returned -EINVAL
SweepFailed == \E a \in swept : check_page_pte(present, a) = NULL

\* C1: round-trip restore.  When mmcontext(1) is called on an active
\* snapshot and reports success, every page that was captured after a write
\* fault holds again the content it had when the snapshot began.
C1_RoundTripRestore ==
    [][(contextsave /\ Called(1)' /\ last'.ret = 0)
          => \A a \in QueueAddrs(context_queue) : content'[a] = snap[a]]_vars

\* a call of mmcontext, none of whose copies fails, that ends the snapshot
\* keeping the current page contents
CallerDiscard ==
    /\ \E i \in SyscallArgs : Call(i, 0)
    /\ ~contextsave'
    /\ context_queue' = <<>>
    /\ content' = content

C3_NoDoubleCapture ==
    \A m, n \in 1..Len(context_queue) :
        context_queue[m].address = context_queue[n].address => m = n

\* C4: exclusivity.  mmcontext(0) called while a snapshot is active returns
\* -EINVAL and changes neither contextsave, nor the queue, nor a write bit,
\* nor a page content.
C4_BeginWhileActiveRejected ==
    [][(contextsave /\ Called(0)')
          => /\ last'.ret = -EINVAL
             /\ contextsave'
             /\ context_queue' = context_queue
             /\ writable' = writable
             /\ content' = content]_vars

\* mmcontext(0) was rejected while the queue held a captured page and
\* another page of the snapshot was still write-protected
C4_Witness ==
    /\ Called(0)
    /\ last.ret = -EINVAL
    /\ contextsave
    /\ context_queue # <<>>
    /\ \E a \in Armed : ~writable[a]

\* C5: mmcontext(1) called while no snapshot is active returns -EINVAL and
\* changes neither a page content, nor the queue, nor contextsave, nor a
\* write bit.
C5_EndWhileInactiveRejected ==
    [][(~contextsave /\ Called(1)')
          => /\ last'.ret = -EINVAL
             /\ ~contextsave'
             /\ context_queue' = context_queue
             /\ content' = content
             /\ writable' = writable]_vars

\* mmcontext(1) was rejected while entries of an ended snapshot were still
\* on the queue and a page differed from its saved content
C5_Witness ==
    /\ Called(1)
    /\ last.ret = -EINVAL
    /\ ~contextsave
    /\ \E n \in 1..Len(context_queue) :
           content[context_queue[n].address] # context_queue[n].new_page

\* C6: scope filtering.  No page of a stack or file region is
\* write-protected, and no entry of the queue has the address of such a
\* page.
C6_ScopeFiltering ==
    \A a \in IneligiblePages :
        /\ present[a] => writable[a]
        /\ a \notin QueueAddrs(context_queue)

\* C7: complete protection.  When mmcontext(0) has returned success, every
\* present page of every region check_anon accepts is write-protected.
C7_CompleteProtection ==
    (Called(0) /\ last.ret = 0)
        => \A k \in 1..Len(mmap) :
               check_anon(mmap[k])
                   => \A a \in PageAddrs :
                          (InRegion(a, mmap[k]) /\ present[a]) => ~writable[a]

\* C8: first write fault.  When a write fault on a write-protected page is
\* handled while the snapshot is active, the queue gains at its tail one
\* entry with the address of the page and the content the page had when the
\* snapshot began, that page becomes writable and the write bit of every
\* other page is unchanged.
C8_FirstFaultFrame ==
    [][(contextsave /\ last'.op = "fault" /\ last'.ret = 0
            /\ ~writable[last'.arg])
          => /\ context_queue' =
                    Append(context_queue,
                           [address |-> last'.arg,
                            new_page |-> snap[last'.arg]])
             /\ writable' = [writable EXCEPT ![last'.arg] = TRUE]
             /\ contextsave'
             /\ content' = content]_vars

\* the first fault of a second page has been handled: the queue holds the
\* two pages in the order of their faults and a third page of the snapshot
\* is still write-protected
C8_Witness ==
    /\ last.op = "fault"
    /\ last.ret = 0
    /\ Len(context_queue) = 2
    /\ context_queue[1].address # context_queue[2].address
    /\ context_queue[2].address = last.arg
    /\ writable[last.arg]
    /\ \E b \in Armed : ~writable[b]

\* C9: half-open sweep.  Every address the sweep walks lies in [vm_start,
\* vm_end) of a region check_anon accepts.
C9_HalfOpenSweep ==
    \A a \in swept :
        \E k \in 1..Len(mmap) : check_anon(mmap[k]) /\ InRegion(a, mmap[k])

\* C10: all-or-nothing setup.  When a set_protect call of mmcontext(0)
\* fails, the call reports an error, contextsave is false afterwards and
\* every write bit is as it was before the call.
C10_SetupAllOrNothing ==
    [][(~contextsave /\ Called(0)' /\ SweepFailed')
          => /\ last'.ret # 0
             /\ ~contextsave'
             /\ writable' = writable]_vars

\* C11: a failed restore keeps the rest.  Whenever entries are on the queue
\* a call of mmcontext(1) is accepted, and what it leaves on the queue are
\* the entries after the one it stopped at, in their order.
C11_RestoreRetryAccepted ==
    [][(context_queue # <<>> /\ Called(1)')
          => /\ last'.ret # -EINVAL
             /\ \E k \in 0..Len(context_queue) :
                    context_queue' =
                        SubSeq(context_queue, k + 1, Len(context_queue))]_vars

\* C12: restore errors are surfaced.  When mmcontext(1), called on an
\* active snapshot, returns 0, every entry of the queue has been written
\* back: the queue is empty, no entry was given up (lost) and the pages hold
\* what writing every entry back in order yields.
C12_RestoreErrorSurfaced ==
    [][(contextsave /\ Called(1)' /\ last'.ret = 0)
          => /\ context_queue' = <<>>
             /\ lost' = lost
             /\ content' = restore_context(Task, 0).content]_vars

C14_ClearAtExit ==
    [][(last'.op = "exit")
          => /\ ~contextsave'
             /\ context_queue' = <<>>
             /\ lost' = lost
             /\ last'.arg = Len(context_queue)
             /\ content' = content
             /\ writable' = writable]_vars

\* the task exited with two entries on the queue
C14_Witness ==
    /\ last.op = "exit"
    /\ last.arg >= 2
    /\ context_queue = <<>>
    /\ ~contextsave

\* the region is stack-backed or file-backed
StackOrFile(vma) == "VM_STACK" \in vma.vm_flags \/ vma.vm_file # NULL

\* C18: region classifier.  check_anon is false exactly for the regions
\* that are stack-backed or file-backed, whatever the combination of the
\* two; and the sweep of mmcontext(0) follows it on the regions it walks:
\* it starts on every region check_anon accepts and walks no address
\* strictly inside a region check_anon rejects.
C18_RegionClassifier ==
    \A k \in 1..Len(mmap) :
        /\ check_anon(mmap[k]) = ~StackOrFile(mmap[k])
        /\ (Called(0) /\ last.ret = 0 /\ k < Len(mmap))
               => IF StackOrFile(mmap[k])
                  THEN \A a \in swept :
                           ~(mmap[k].vm_start < a /\ a < mmap[k].vm_end)
                  ELSE mmap[k].vm_start \in swept

\* mmcontext(0) has swept an anonymous region of a list that also holds a
\* stack region without file and a file region without VM_STACK
C18_Witness ==
    /\ Called(0)
    /\ last.ret = 0
    /\ swept # {}
    /\ \E i, j, k \in 1..Len(mmap) :
           /\ ~StackOrFile(mmap[i])
           /\ mmap[j].vm_flags = {"VM_STACK"} /\ mmap[j].vm_file = NULL
           /\ mmap[k].vm_flags = {} /\ mmap[k].vm_file # NULL

C20_CapturedIsSnapshotContent ==
    contextsave
        => \A n \in 1..Len(context_queue) :
               context_queue[n].new_page = snap[context_queue[n].address]

\* C21: inactive implies empty queue.  In every state in which contextsave
\* is false the queue holds no entry.
C21_InactiveImpliesEmptyQueue == ~contextsave => context_queue = <<>>

\* C22: lifecycle.  contextsave becomes true only by a successful
\* mmcontext(0), and a successful mmcontext(0) makes it true; it becomes
\* false only by an accepted mmcontext(1), by clear_context at exit or by a
\* failed capture, and each of these makes it false; a write fault that is
\* handled and a rejected call of mmcontext leave it as it is.
C22_Lifecycle ==
    [][/\ (~contextsave /\ contextsave') => (Called(0)' /\ last'.ret = 0)
       /\ (~contextsave /\ Called(0)' /\ last'.ret = 0) => contextsave'
       /\ (contextsave /\ ~contextsave')
              => \/ Called(1)' /\ last'.ret = 0
                 \/ last'.op = "exit"
                 \/ last'.op = "fault" /\ last'.ret # 0
       /\ (contextsave /\ Called(1)' /\ last'.ret = 0) => ~contextsave'
       /\ (last'.op = "exit") => ~contextsave'
       /\ (last'.op = "fault" /\ last'.ret # 0) => ~contextsave'
       /\ (last'.op = "fault" /\ last'.ret = 0) => contextsave' = contextsave
       /\ (last'.op = "mmcontext" /\ last'.ret = -EINVAL)
              => contextsave' = contextsave]_vars

\* a snapshot was begun, a capture was handled while it stayed active (its
\* page is writable again), and an accepted mmcontext(1) has ended it
C22_Witness ==
    /\ Called(1)
    /\ last.ret = 0
    /\ ~contextsave
    /\ \E a \in Armed : writable[a]

\* the page contents c after the first k entries of the queue q have been
\* written back, first entry first
RECURSIVE WriteBack(_, _, _)
WriteBack(c, q, k) ==
    IF k = 0 THEN c
    ELSE [WriteBack(c, q, k - 1) EXCEPT ![q[k].address] = q[k].new_page]

\* C23: restore order.  An accepted mmcontext(1) writes the entries back in
\* the order in which they were queued, each once, and unlinks each entry
\* it processes: either every entry was written and the queue is empty, or
\* the first k entries were written, the copy of entry k + 1 failed and the
\* queue holds the entries after it.
C23_RestoreOrder ==
    [][(contextsave /\ Called(1)' /\ last'.ret = 0)
          => LET n == Len(context_queue)
             IN  \E k \in 0..n :
                    /\ content' = WriteBack(content, context_queue, k)
                    /\ \/ /\ k = n
                          /\ context_queue' = <<>>
                          /\ lost' = lost
                       \/ /\ k < n
                          /\ context_queue' = SubSeq(context_queue, k + 2, n)
                          /\ lost' = lost + 1]_vars

\* mmcontext(1) has written back the entries of two different pages, both
\* captured in the snapshot it ended, while a third page of that snapshot
\* was never captured
C23_Witness ==
    /\ Called(1)
    /\ last.ret = 0
    /\ context_queue = <<>>
    /\ lost = 0
    /\ \E a, b \in Armed : a # b /\ writable[a] /\ writable[b]
    /\ \E c \in Armed : ~writable[c]

\* C24: no leak.  Every struct process_context that was allocated is on
\* the queue or has been freed: none was unlinked, dropped or left unlinked
\* without being freed.
C24_NoLeak == lost = 0

\* C25: a new generation starts empty.  When mmcontext(0) succeeds the
\* queue is empty and no entry that was still linked has been dropped
\* without being freed.
C25_NewGenerationStartsEmpty ==
    [][(Called(0)' /\ last'.ret = 0)
          => /\ context_queue' = <<>>
             /\ lost' = lost]_vars

\* C26: an entry does not change while it is on the queue.  Every step
\* either removes entries from the head of the queue and leaves the others
\* unchanged and in their order, or adds one entry at the tail and leaves
\* every entry unchanged; a write of the task to a page leaves the queue as
\* it is.
C26_SavedPageImmutable ==
    [][/\ \/ \E k \in 0..Len(context_queue) :
                 context_queue' =
                     SubSeq(context_queue, k + 1, Len(context_queue))
          \/ /\ Len(context_queue') = Len(context_queue) + 1
             /\ SubSeq(context_queue', 1, Len(context_queue)) = context_queue
       /\ (last'.op = "write") => context_queue' = context_queue]_vars

\* the task has written to a page that has an entry on the queue: the page
\* holds the new value, the entry the value that was captured
C26_Witness ==
    /\ last.op = "write"
    /\ contextsave
    /\ \E n \in 1..Len(context_queue) :
           /\ writable[context_queue[n].address]
           /\ content[context_queue[n].address] # context_queue[n].new_page

\* C27: frame of the sweep.  set_protect on a region of the list changes
\* only the write bit of present pages of that region: it changes no page
\* content, leaves the queue and the count of allocations as they are, and
\* the write bit of every page outside [vm_start, vm_end) keeps its value.
C27_SweepFrame ==
    \A k \in 1..Len(mmap) :
        LET r == set_protect(present, mmap[k], Task)
        IN  /\ r.content = content
            /\ r.context_queue = context_queue
            /\ r.lost = lost
            /\ \A a \in PageAddrs :
                   r.writable[a] # writable[a]
                       => present[a] /\ InRegion(a, mmap[k])

\* C28: the sweep is idempotent.  set_protect run a second time on a region
\* leaves the write bits as the first run left them and returns what the
\* first run returned, and a page that is write-protected before a run is
\* write-protected after it.
C28_SweepIdempotent ==
    \A k \in 1..Len(mmap) :
        LET once == set_protect(present, mmap[k], Task)
            twice == set_protect(present, mmap[k], once)
        IN  /\ twice.writable = once.writable
            /\ twice.ret = once.ret
            /\ \A a \in PageAddrs : ~writable[a] => ~once.writable[a]

\* mmcontext(0) has swept the regions again after an earlier snapshot was
\* ended by a failure, and a swept region starts with a present page that
\* is write-protected
C28_Witness ==
    /\ Called(0)
    /\ last.ret = 0
    /\ lost >= 1
    /\ \E k \in 1..(Len(mmap) - 1) :
           /\ check_anon(mmap[k])
           /\ present[mmap[k].vm_start]
           /\ ~writable[mmap[k].vm_start]

\* the addresses set_protect walks on the k-th region of the list
Visited(k) == set_protect(present, mmap[k], [Task EXCEPT !.swept = {}]).swept

\* C29: bounded operations.  The sweeps of one save_context walk each page
\* at most once: the addresses walked by the set_protect calls of two
\* different regions are different; and a restore without failing copy, and
\* clear_context, end with the queue empty.
C29_BoundedOperations ==
    /\ \A j, k \in 1..(Len(mmap) - 1) :
           (j # k /\ check_anon(mmap[j]) /\ check_anon(mmap[k]))
               => Visited(j) \cap Visited(k) = {}
    /\ restore_context(Task, 0).context_queue = <<>>
    /\ clear_context(Task).context_queue = <<>>

\* C30: every region is considered.  After a successful mmcontext(0) the
\* sweep has started on every region of the list that check_anon accepts,
\* the last region of the list included.
C30_EveryRegionConsidered ==
    (Called(0) /\ last.ret = 0)
        => \A k \in 1..Len(mmap) :
               check_anon(mmap[k]) => mmap[k].vm_start \in swept

\* C31: no stale protection.  While contextsave is false no present page is
\* write-protected: what a snapshot protected is writable again once
\* mmcontext(1) or clear_context has ended it.
C31_NoStaleProtection ==
    ~contextsave => \A a \in PageAddrs : present[a] => writable[a]

\* C32: mmcontext called with an argument other than 0 and 1 returns
\* -EINVAL and changes neither contextsave, nor the queue, nor a write bit,
\* nor a page content, and gives up no entry.
C32_OtherArgumentRejected ==
    [][(last'.op = "mmcontext" /\ last'.arg \notin {0, 1})
          => /\ last'.ret = -EINVAL
             /\ contextsave' = contextsave
             /\ context_queue' = context_queue
             /\ writable' = writable
             /\ content' = content
             /\ lost' = lost]_vars

\* mmcontext(2) was called on an active snapshot that holds a captured page
\* whose live content has changed, while another page is still
\* write-protected
C32_Witness ==
    /\ Called(2)
    /\ last.ret = -EINVAL
    /\ contextsave
    /\ \E n \in 1..Len(context_queue) :
           content[context_queue[n].address] # context_queue[n].new_page
    /\ \E a \in Armed : ~writable[a]


\* ------------------------------------------------------------------------
\* Properties of SpecMT
\* ------------------------------------------------------------------------
\* task t is inside BeginSnapshot (save_context) or EndSnapshot
\* (restore_context)
InBeginOrEnd(t) == tasks[t].pc \in {"walk", "sweep", "restore"}

\* task t is inside the write-fault handler
InFault(t) == tasks[t].pc \in {"copy", "unprotect"}

\* C15: BeginSnapshot, EndSnapshot and OnWriteFault on one process are
\* mutually exclusive: while one task is inside BeginSnapshot or
\* EndSnapshot, no other task of the process is inside any of the three.
C15_MutualExclusion ==
    \A t \in Threads : \A u \in Threads \ {t} :
        InBeginOrEnd(t) => ~(InBeginOrEnd(u) \/ InFault(u))

\* C16: when two OnWriteFault invocations for different addresses run
\* concurrently, both SavedPages end up in the vault, in one of the two
\* serial orders: once both have linked their entry, one queue ends with
\* the two entries.
C16_SynchronizedCapture ==
    \A t \in Threads : \A u \in Threads \ {t} :
        (/\ tasks[t].pc = "unprotect"
         /\ tasks[u].pc = "unprotect"
         /\ tasks[t].i # tasks[u].i)
        => \E w \in Threads :
              LET q == tasks[w].context_queue
                  n == Len(q)
              IN  /\ n >= 2
                  /\ {q[n - 1].address, q[n].address}
                        = {tasks[t].i, tasks[u].i}

\* C17: a process has at most one outstanding snapshot, however many
\* tasks it has: at most one task of the mm has contextsave set.
C17_OneSnapshotPerProcess ==
    Cardinality({t \in Threads : tasks[t].contextsave}) <= 1


\* ------------------------------------------------------------------------
\* Properties of SpecPhy
\* ------------------------------------------------------------------------
\* lane l has initialised the common block and not yet given it up: its
\* init has succeeded and its exit has not run
Held(l) ==
    \/ phys[l].init_count = 1
    \/ phys[l].pc \in {"enable_power_on", "enable_exit"}

\* the step is a call of qcom_qmp_phy_combo_init that returned an error
InitFailed ==
    /\ last'.ret # 0
    /\ \/ last'.op = "phy_init"
       \/ last'.op = "enable" /\ phys["usb_phy"].pc = "idle"

\* C33: reference count of the common block.  After every step init_count
\* is the number of lanes whose successful init has not been matched by an
\* exit, it is not negative and phy_mutex is free; the regulators are
\* turned on only by the step that takes init_count from 0 to 1 and the
\* clocks are turned off only by the step that takes it from 1 to 0.
C33_InitCountBalanced ==
    [][/\ qmp'.init_count = Cardinality({l \in Lanes : Held(l)'})
       /\ qmp'.init_count >= 0
       /\ ~qmp'.phy_mutex
       /\ (~qmp.vregs /\ qmp'.vregs)
              => (qmp.init_count = 0 /\ qmp'.init_count = 1)
       /\ (qmp.clks /\ ~qmp'.clks)
              => (qmp.init_count = 1 /\ qmp'.init_count = 0)]_vars

\* C34: a failed init leaves no trace.  When qcom_qmp_phy_combo_init
\* returns an error, init_count has the value it had before the call and
\* the regulators and the clocks are off; and whenever it returns 0 the
\* regulators and the clocks are on.
C34_FailedInitLeavesNoTrace ==
    [][/\ InitFailed
              => /\ qmp'.init_count = qmp.init_count
                 /\ ~qmp'.vregs
                 /\ ~qmp'.clks
       /\ (last'.op \in {"phy_init", "enable_init"} /\ last'.ret = 0)
              => (qmp'.vregs /\ qmp'.clks)]_vars

\* C35: enable is all-or-nothing.  When qcom_qmp_phy_combo_enable returns
\* an error from its init, init_count is what it was before; when it
\* returns the error of power_on, its exit has taken back the count of its
\* init; in both cases the pipe clock of the lane is off.  A successful init
\* inside enable adds exactly one, and disable takes one away.
C35_EnableAllOrNothing ==
    [][/\ (last'.op = "enable" /\ last'.ret # 0)
              => /\ ~qmp'.pipe_clk["usb_phy"]
                 /\ qmp'.init_count =
                        IF phys["usb_phy"].pc = "enable_exit"
                        THEN qmp.init_count - 1
                        ELSE qmp.init_count
       /\ (last'.op = "enable_init") => qmp'.init_count = qmp.init_count + 1
       /\ (last'.op = "enable" /\ last'.ret = 0)
              => qmp'.init_count = qmp.init_count
       /\ (last'.op = "disable")
              => qmp'.init_count = qmp.init_count - 1]_vars

====
